---- MODULE Spec2Model ----
(***************************************************************************)
(* SiFive UART driver (chips/sifive/src/uart.rs) as a state machine.       *)
(*                                                                         *)
(* The driver state (struct Uart), the registers it touches and the        *)
(* transmit FIFO behind them are the variables.  A foreground call is a    *)
(* sequence of steps (pc), one per register access or cell update, so the  *)
(* hardware (Drain) runs between any two of them; handle_interrupt is a    *)
(* second context (hpc) that the foreground never preempts.                *)
(*                                                                         *)
(*   Spec         calls and interrupt handlers alternate: handle_interrupt *)
(*                runs only between foreground calls.                      *)
(*   LiveSpec     Spec with the fairness of the hardware and the CPU.      *)
(*   SpecPreempt  the transmit-watermark interrupt, once enabled and       *)
(*                pending, preempts a foreground call between any two of   *)
(*                its steps.                                               *)
(*   SpecUnsupported  the transmit path of LiveSpec with transmit_abort,   *)
(*                transmit_word and the receive operations called between  *)
(*                its calls.                                               *)
(*   SpecOverlap  Spec with a caller that calls transmit_buffer again      *)
(*                before the callback of the transmit in progress.         *)
(***************************************************************************)
EXTENDS Integers, Sequences, FiniteSets, TLC

\* ---------------------------------------------------------------- bounds
\* Longest tx_len passed to transmit_buffer, and the length of the longest buffer.
MaxLen == 3
\* Deepest hardware transmit FIFO (the depth is fixed per chip, 1..MaxFifoDepth).
MaxFifoDepth == 2
\* Distinct caller-owned buffers.
NumBuffers == 2
\* Longest byte slice passed to transmit_sync.
MaxSync == 2

BufferIds == 1..NumBuffers

\* tx_data.len() of buffer b: buffer 1 holds MaxLen bytes, each further buffer
\* one byte less, so a call may pass a tx_len beyond the end of its slice.
SliceLen(b) == MaxLen + 1 - b

\* buffer[i] of buffer b, for i < SliceLen(b) (beyond it the indexing panics):
\* the contents are fixed by the buffer's identity.
ByteOf(b, i) == (16 * b + i) % 256

\* hil::uart::Parameters as far as configure reads them.
Parities == {"None", "Odd", "Even"}
StopBitsValues == {"One", "Two"}
Bauds == {0, 100, 115200}
Clocks == {16000000}
Params == [baud_rate : Bauds, parity : Parities, stop_bits : StopBitsValues,
           hw_flow_control : BOOLEAN]

VARIABLES
    \* struct Uart
    clock_frequency,    \* u32, fixed by new()
    tx_client,          \* OptionalCell: TRUE when a transmit client is set
    stop_bits,          \* Cell<StopBits>
    buffer,             \* TakeCell: {} when empty, {b} when it holds buffer b
    len,                \* Cell<usize>
    index,              \* Cell<usize>
    \* UartRegisters
    txctrl,             \* [txen, nstop, txcnt]
    ie_txwm,            \* interrupt-enable register, txwm bit
    div,                \* baud rate divisor register
    fifo,               \* entries in the transmit FIFO behind txdata
    fifo_depth,         \* capacity of that FIFO, fixed by the hardware
    \* foreground call in progress and its locals
    pc,
    tx_data,            \* transmit_buffer's tx_data ({} outside the call)
    tx_len,             \* transmit_buffer's tx_len
    i,                  \* transmit_buffer's loop variable
    bytes,              \* transmit_sync's bytes still to write
    \* interrupt context
    hpc,
    map_buffer,         \* the buffer TakeCell::map holds during the refill loop ({} outside)
    \* observations
    ret,                \* what the last foreground call returned
    req,                \* the transfer started by the last transmit_buffer(b, n > 0)
    cb,                 \* transmitted_buffer callbacks delivered since req was set
    regWrites,          \* registers written by the last foreground call
    txlog,              \* bytes written to txdata since the last transmit call began
    dropped,            \* a byte was written to txdata while the FIFO was full
    drained,            \* an entry left the FIFO during the transmit_buffer call in progress
    sync_arg,           \* the slice passed to the transmit_sync call txlog records
    lost                \* buffers that buffer.replace found in the slot and dropped

driver == <<clock_frequency, tx_client, stop_bits, buffer, len, index>>
regs == <<txctrl, ie_txwm, div, fifo, fifo_depth>>
locals == <<pc, tx_data, tx_len, i, bytes, hpc, map_buffer>>
obs == <<ret, req, cb, regWrites, txlog, dropped, drained, sync_arg, lost>>
vars == <<driver, regs, locals, obs>>

TbPcs == {"tb_write", "tb_index", "tb_full", "tb_store", "tb_len", "tb_ctrl"}
TsPcs == {"ts_poll", "ts_write"}

\* ------------------------------------------------------------- registers
\* Field::val of tock-registers: the value masked to the field's NUMBITS.
FieldVal(value, numbits) == value % (2 ^ numbits)

\* txctrl.write(...): the whole register; fields not named are written as 0.
TxctrlValue(txen, nstop, txcnt) ==
    [txen |-> FieldVal(txen, 1), nstop |-> FieldVal(nstop, 1), txcnt |-> FieldVal(txcnt, 3)]

\* txdata::full, bit 31 of a read of txdata.
TxFull == fifo = fifo_depth

\* interrupt-pending register, txwm bit: fewer entries in the FIFO than txcnt.
ip_txwm == fifo < txctrl.txcnt

\* regs.txdata.write(data): the FIFO takes the byte unless it is full.
TxdataWrite(byte) ==
    /\ fifo' = IF TxFull THEN fifo ELSE fifo + 1
    /\ txlog' = Append(txlog, FieldVal(byte, 8))
    /\ dropped' = (dropped \/ TxFull)

\* The transmitter shifts one entry out of the FIFO.
Drain ==
    /\ txctrl.txen = 1
    /\ fifo > 0
    /\ fifo' = fifo - 1
    /\ drained' = (drained \/ pc \in TbPcs)
    /\ UNCHANGED <<driver, txctrl, ie_txwm, div, fifo_depth, locals,
                   ret, req, cb, regWrites, txlog, dropped, sync_arg, lost>>

\* ------------------------------------------------------------------ new
Init ==
    /\ clock_frequency \in Clocks
    /\ tx_client = FALSE
    /\ stop_bits = "One"
    /\ buffer = {}
    /\ len = 0
    /\ index = 0
    /\ txctrl = TxctrlValue(0, 0, 0)
    /\ ie_txwm = FALSE
    /\ div = 0
    /\ fifo = 0
    /\ fifo_depth \in 1..MaxFifoDepth
    /\ pc = "idle"
    /\ tx_data = {}
    /\ tx_len = 0
    /\ i = 0
    /\ bytes = <<>>
    /\ hpc = "none"
    /\ map_buffer = {}
    /\ ret = [op |-> "new", code |-> "Ok", buf |-> {}]
    /\ req = {}
    /\ cb = <<>>
    /\ regWrites = {}
    /\ txlog = <<>>
    /\ dropped = FALSE
    /\ drained = FALSE
    /\ sync_arg = <<>>
    /\ lost = {}

\* The CPU is in the foreground, between calls.
Idle == pc = "idle" /\ hpc = "none"

\* -------------------------------------------------------- configuration
\* set_baud_rate: u32 arithmetic.  baud_rate = 0 panics (division by zero);
\* a quotient of 0 makes the subtraction overflow, which panics with overflow
\* checks and wraps to 2^32 - 1 without them.  2^32 is a multiple of 2^16, so
\* the 16-bit field holds (quotient - 1) mod 2^16 in either non-panicking case.
set_baud_rate(baud_rate) ==
    IF baud_rate = 0
    THEN pc' = "panic" /\ UNCHANGED <<div, regWrites>>
    ELSE LET quotient == clock_frequency \div baud_rate
             divisor == quotient - 1
         IN  \/ /\ div' = FieldVal(divisor, 16)
                /\ regWrites' = {"div"}
                /\ pc' = "idle"
             \/ /\ quotient = 0
                /\ pc' = "panic"
                /\ UNCHANGED <<div, regWrites>>

configure_NoParityCheck(params) ==
    /\ Idle
    /\ IF params.hw_flow_control # FALSE
       THEN /\ ret' = [op |-> "configure", code |-> "NOSUPPORT", buf |-> {}]
            /\ regWrites' = {}
            /\ UNCHANGED <<div, stop_bits, pc>>
       ELSE /\ set_baud_rate(params.baud_rate)
            /\ IF pc' = "panic"
               THEN UNCHANGED <<stop_bits, ret>>
               ELSE /\ stop_bits' = params.stop_bits
                    /\ ret' = [op |-> "configure", code |-> "Ok", buf |-> {}]
    /\ UNCHANGED <<clock_frequency, tx_client, buffer, len, index, txctrl, ie_txwm, fifo, fifo_depth,
                   tx_data, tx_len, i, bytes, hpc, map_buffer, req, cb, txlog, dropped,
                   drained, sync_arg, lost>>

configure(params) ==
    /\ Idle
    /\ IF params.parity # "None" \/ params.hw_flow_control # FALSE
       THEN /\ ret' = [op |-> "configure", code |-> "NOSUPPORT", buf |-> {}]
            /\ regWrites' = {}
            /\ UNCHANGED <<div, stop_bits, pc>>
       ELSE /\ set_baud_rate(params.baud_rate)
            /\ IF pc' = "panic"
               THEN UNCHANGED <<stop_bits, ret>>
               ELSE /\ stop_bits' = params.stop_bits
                    /\ ret' = [op |-> "configure", code |-> "Ok", buf |-> {}]
    /\ UNCHANGED <<clock_frequency, tx_client, buffer, len, index, txctrl, ie_txwm, fifo, fifo_depth,
                   tx_data, tx_len, i, bytes, hpc, map_buffer, req, cb, txlog, dropped,
                   drained, sync_arg, lost>>

\* --------------------------------------------------------------- client
set_transmit_client ==
    /\ Idle
    /\ tx_client' = TRUE
    /\ UNCHANGED <<clock_frequency, stop_bits, buffer, len, index, regs, locals, obs>>

\* ----------------------------------------------------------- interrupts
enable_tx_interrupt == ie_txwm' = TRUE

disable_tx_interrupt_Noop == UNCHANGED ie_txwm

disable_tx_interrupt == ie_txwm' = FALSE

hi_done_TakeWithoutClient ==
    /\ txctrl' = TxctrlValue(0, 0, 0)
    /\ disable_tx_interrupt
    /\ buffer' = {}
    /\ IF tx_client /\ buffer # {}
       THEN cb' = Append(cb, [buf |-> CHOOSE b \in buffer : TRUE, len |-> len,
                             result |-> "Ok"])
       ELSE UNCHANGED cb
    /\ UNCHANGED <<clock_frequency, tx_client, stop_bits, len, index, div, fifo_depth, fifo,
                   locals, ret, req, regWrites, txlog, dropped,
                   drained, sync_arg, lost>>

hi_done_CallbackWithoutBuffer ==
    /\ txctrl' = TxctrlValue(0, 0, 0)
    /\ disable_tx_interrupt
    /\ IF tx_client
       THEN /\ buffer' = {}
            /\ cb' = Append(cb, [buf |-> IF buffer = {} THEN 0 ELSE CHOOSE b \in buffer : TRUE,
                                 len |-> len, result |-> "Ok"])
       ELSE UNCHANGED <<buffer, cb>>
    /\ UNCHANGED <<clock_frequency, tx_client, stop_bits, len, index, div, fifo_depth, fifo,
                   locals, ret, req, regWrites, txlog, dropped,
                   drained, sync_arg, lost>>

hi_done_TxStaysEnabled ==
    /\ disable_tx_interrupt
    /\ IF tx_client /\ buffer # {}
       THEN /\ buffer' = {}
            /\ cb' = Append(cb, [buf |-> CHOOSE b \in buffer : TRUE, len |-> len,
                                 result |-> "Ok"])
       ELSE UNCHANGED <<buffer, cb>>
    /\ UNCHANGED <<clock_frequency, tx_client, stop_bits, len, index, txctrl, div, fifo_depth,
                   fifo, locals, ret, req, regWrites, txlog, dropped,
                   drained, sync_arg, lost>>

\* The completion branch: cursor == length.
hi_done ==
    /\ txctrl' = TxctrlValue(0, 0, 0)
    /\ disable_tx_interrupt
    /\ IF tx_client /\ buffer # {}
       THEN /\ buffer' = {}
            /\ cb' = Append(cb, [buf |-> CHOOSE b \in buffer : TRUE, len |-> len,
                                 result |-> "Ok"])
       ELSE UNCHANGED <<buffer, cb>>
    /\ UNCHANGED <<clock_frequency, tx_client, stop_bits, len, index, div, fifo_depth, fifo,
                   locals, ret, req, regWrites, txlog, dropped,
                   drained, sync_arg, lost>>

\* handle_interrupt up to the first byte of a refill: the snapshot of ip, the
\* comparison of len and index, the completion branch, or the entry of the loop
\* inside buffer.map, which takes the buffer out of the slot for as long as the
\* closure runs (an empty slot, or an empty range index..len, leaves nothing
\* to do, and the slot as it was).
handle_interrupt ==
    /\ hpc = "none"
    /\ IF ~ip_txwm
       THEN UNCHANGED vars
       ELSE IF len = index
       THEN hi_done
       ELSE IF buffer = {} \/ ~(index < len)
       THEN UNCHANGED vars
       ELSE /\ hpc' = "hi_write"
            /\ map_buffer' = buffer
            /\ buffer' = {}
            /\ UNCHANGED <<clock_frequency, tx_client, stop_bits, len, index, regs,
                           pc, tx_data, tx_len, i, bytes, obs>>

\* One iteration of the refill loop: buffer[i], which panics beyond the end of
\* the slice, the write and the cursor update ...
hi_write ==
    /\ hpc = "hi_write"
    /\ IF index < SliceLen(CHOOSE b \in map_buffer : TRUE)
       THEN /\ TxdataWrite(ByteOf(CHOOSE b \in map_buffer : TRUE, index))
            /\ index' = index + 1
            /\ hpc' = "hi_full"
       ELSE /\ hpc' = "panic"
            /\ UNCHANGED <<index, fifo, txlog, dropped>>
    /\ UNCHANGED <<clock_frequency, tx_client, stop_bits, buffer, len, txctrl, ie_txwm, div, fifo_depth,
                   pc, tx_data, tx_len, i, bytes, map_buffer, ret, req, cb, regWrites,
                   drained, sync_arg, lost>>

\* ... and the read of the full flag that ends the loop or goes on.
hi_full ==
    /\ hpc = "hi_full"
    /\ hpc' = IF TxFull \/ ~(index < len) THEN "hi_replace" ELSE "hi_write"
    /\ UNCHANGED <<driver, regs, pc, tx_data, tx_len, i, bytes, map_buffer, obs>>

\* The closure has returned: TakeCell::map puts the buffer back in the slot.
hi_replace ==
    /\ hpc = "hi_replace"
    /\ buffer' = map_buffer
    /\ map_buffer' = {}
    /\ hpc' = "none"
    /\ UNCHANGED <<clock_frequency, tx_client, stop_bits, len, index, regs,
                   pc, tx_data, tx_len, i, bytes, obs>>

\* -------------------------------------------------------- transmit_sync
transmit_sync(bs) ==
    /\ Idle
    /\ txctrl' = TxctrlValue(1, 0, 1)
    /\ bytes' = bs
    /\ pc' = IF bs = <<>> THEN "idle" ELSE "ts_poll"
    /\ regWrites' = {"txctrl"}
    /\ txlog' = <<>>
    /\ dropped' = FALSE
    /\ sync_arg' = bs
    /\ ret' = [op |-> "transmit_sync", code |-> "Ok", buf |-> {}]
    /\ UNCHANGED <<driver, ie_txwm, div, fifo_depth, fifo, tx_data, tx_len, i, hpc, map_buffer, req, cb,
                   drained, lost>>

ts_poll_NoWait ==
    /\ pc = "ts_poll" /\ hpc = "none"
    /\ pc' = "ts_write"
    /\ UNCHANGED <<driver, regs, tx_data, tx_len, i, bytes, hpc, map_buffer, obs>>

\* while regs.txdata.is_set(txdata::full) {}: leaves the loop on a read that
\* finds the flag clear.
ts_poll ==
    /\ pc = "ts_poll" /\ hpc = "none"
    /\ ~TxFull
    /\ pc' = "ts_write"
    /\ UNCHANGED <<driver, regs, tx_data, tx_len, i, bytes, hpc, map_buffer, obs>>

ts_write ==
    /\ pc = "ts_write" /\ hpc = "none"
    /\ TxdataWrite(Head(bytes))
    /\ bytes' = Tail(bytes)
    /\ pc' = IF Tail(bytes) = <<>> THEN "idle" ELSE "ts_poll"
    /\ regWrites' = regWrites \cup {"txdata"}
    /\ UNCHANGED <<driver, txctrl, ie_txwm, div, fifo_depth, tx_data, tx_len, i, hpc, map_buffer, ret, req, cb,
                   drained, sync_arg, lost>>

\* ------------------------------------------------------ transmit_buffer
transmit_buffer_LateSizeCheck(b, n) ==
    /\ Idle
    /\ enable_tx_interrupt
    /\ IF n = 0
       THEN /\ ret' = [op |-> "transmit_buffer", code |-> "SIZE", buf |-> {b}]
            /\ regWrites' = {"ie"}
            /\ UNCHANGED <<pc, tx_data, tx_len, i, req, cb, txlog, dropped,
                           drained, sync_arg>>
       ELSE /\ pc' = "tb_write"
            /\ tx_data' = {b}
            /\ tx_len' = n
            /\ i' = 0
            /\ req' = {[buf |-> b, len |-> n, client |-> tx_client]}
            /\ cb' = <<>>
            /\ regWrites' = {"ie"}
            /\ txlog' = <<>>
            /\ dropped' = FALSE
            /\ drained' = FALSE
            /\ sync_arg' = <<>>
            /\ UNCHANGED ret
    /\ UNCHANGED <<driver, txctrl, div, fifo_depth, fifo, bytes, hpc, map_buffer, lost>>

\* The size check and, for tx_len > 0, enable_tx_interrupt.
transmit_buffer(b, n) ==
    /\ Idle
    /\ IF n = 0
       THEN /\ ret' = [op |-> "transmit_buffer", code |-> "SIZE", buf |-> {b}]
            /\ regWrites' = {}
            /\ UNCHANGED <<ie_txwm, pc, tx_data, tx_len, i, req, cb, txlog, dropped,
                           drained, sync_arg>>
       ELSE /\ enable_tx_interrupt
            /\ pc' = "tb_write"
            /\ tx_data' = {b}
            /\ tx_len' = n
            /\ i' = 0
            /\ req' = {[buf |-> b, len |-> n, client |-> tx_client]}
            /\ cb' = <<>>
            /\ regWrites' = {"ie"}
            /\ txlog' = <<>>
            /\ dropped' = FALSE
            /\ drained' = FALSE
            /\ sync_arg' = <<>>
            /\ UNCHANGED ret
    /\ UNCHANGED <<driver, txctrl, div, fifo_depth, fifo, bytes, hpc, map_buffer, lost>>

\* tx_data[i], which panics beyond the end of the slice, and the write.
tb_write ==
    /\ pc = "tb_write" /\ hpc = "none"
    /\ IF i < SliceLen(CHOOSE b \in tx_data : TRUE)
       THEN /\ TxdataWrite(ByteOf(CHOOSE b \in tx_data : TRUE, i))
            /\ pc' = "tb_index"
            /\ regWrites' = regWrites \cup {"txdata"}
       ELSE /\ pc' = "panic"
            /\ UNCHANGED <<fifo, txlog, dropped, regWrites>>
    /\ UNCHANGED <<driver, txctrl, ie_txwm, div, fifo_depth, tx_data, tx_len, i, bytes, hpc, map_buffer,
                   ret, req, cb, drained, sync_arg, lost>>

tb_index_KeepsCursor ==
    /\ pc = "tb_index" /\ hpc = "none"
    /\ index' = i
    /\ pc' = "tb_full"
    /\ UNCHANGED <<clock_frequency, tx_client, stop_bits, buffer, len, regs,
                   tx_data, tx_len, i, bytes, hpc, map_buffer, obs>>

\* self.index.set(i + 1)
tb_index ==
    /\ pc = "tb_index" /\ hpc = "none"
    /\ index' = i + 1
    /\ pc' = "tb_full"
    /\ UNCHANGED <<clock_frequency, tx_client, stop_bits, buffer, len, regs,
                   tx_data, tx_len, i, bytes, hpc, map_buffer, obs>>

tb_full_StopsAfterFirst ==
    /\ pc = "tb_full" /\ hpc = "none"
    /\ pc' = "tb_store" /\ UNCHANGED i
    /\ UNCHANGED <<driver, regs, tx_data, tx_len, bytes, hpc, map_buffer, obs>>

\* if regs.txdata.is_set(txdata::full) { break }, or the end of the range 0..tx_len.
tb_full ==
    /\ pc = "tb_full" /\ hpc = "none"
    /\ IF TxFull \/ ~(i + 1 < tx_len)
       THEN pc' = "tb_store" /\ UNCHANGED i
       ELSE pc' = "tb_write" /\ i' = i + 1
    /\ UNCHANGED <<driver, regs, tx_data, tx_len, bytes, hpc, map_buffer, obs>>

tb_store_KeepsOccupied ==
    /\ pc = "tb_store" /\ hpc = "none"
    /\ buffer' = IF buffer = {} THEN tx_data ELSE buffer
    /\ tx_data' = {}
    /\ pc' = "tb_len"
    /\ UNCHANGED <<clock_frequency, tx_client, stop_bits, len, index, regs,
                   tx_len, i, bytes, hpc, map_buffer, obs>>

\* buffer.replace(tx_data): a buffer already in the slot is dropped.
tb_store ==
    /\ pc = "tb_store" /\ hpc = "none"
    /\ buffer' = tx_data
    /\ lost' = lost \cup buffer
    /\ tx_data' = {}
    /\ pc' = "tb_len"
    /\ UNCHANGED <<clock_frequency, tx_client, stop_bits, len, index, regs,
                   tx_len, i, bytes, hpc, map_buffer,
                   ret, req, cb, regWrites, txlog, dropped, drained, sync_arg>>

tb_len_StoresCursor ==
    /\ pc = "tb_len" /\ hpc = "none"
    /\ len' = index
    /\ pc' = "tb_ctrl"
    /\ UNCHANGED <<clock_frequency, tx_client, stop_bits, buffer, index, regs,
                   tx_data, tx_len, i, bytes, hpc, map_buffer, obs>>

tb_len ==
    /\ pc = "tb_len" /\ hpc = "none"
    /\ len' = tx_len
    /\ pc' = "tb_ctrl"
    /\ UNCHANGED <<clock_frequency, tx_client, stop_bits, buffer, index, regs,
                   tx_data, tx_len, i, bytes, hpc, map_buffer, obs>>

tb_ctrl_SyncCallback ==
    /\ pc = "tb_ctrl" /\ hpc = "none"
    /\ txctrl' = TxctrlValue(1, IF stop_bits = "One" THEN 0 ELSE 1, 1)
    /\ regWrites' = regWrites \cup {"txctrl"}
    /\ ret' = [op |-> "transmit_buffer", code |-> "Ok", buf |-> {}]
    /\ pc' = "idle"
    /\ IF index = len /\ tx_client /\ buffer # {}
       THEN /\ buffer' = {}
            /\ cb' = Append(cb, [buf |-> CHOOSE b \in buffer : TRUE, len |-> len,
                                 result |-> "Ok"])
       ELSE UNCHANGED <<buffer, cb>>
    /\ drained' = FALSE
    /\ UNCHANGED <<clock_frequency, tx_client, stop_bits, len, index, ie_txwm, div, fifo_depth, fifo,
                   tx_data, tx_len, i, bytes, hpc, map_buffer, req, txlog, dropped, sync_arg, lost>>

tb_ctrl_OneStopBit ==
    /\ pc = "tb_ctrl" /\ hpc = "none"
    /\ txctrl' = TxctrlValue(1, 0, 1)
    /\ regWrites' = regWrites \cup {"txctrl"}
    /\ ret' = [op |-> "transmit_buffer", code |-> "Ok", buf |-> {}]
    /\ pc' = "idle"
    /\ drained' = FALSE
    /\ UNCHANGED <<driver, ie_txwm, div, fifo_depth, fifo, tx_data, tx_len, i, bytes, hpc, map_buffer, req, cb,
                   txlog, dropped, sync_arg, lost>>

\* The stop-bit mode recorded by configure, txen and txcnt = 1 go to txctrl.
tb_ctrl ==
    /\ pc = "tb_ctrl" /\ hpc = "none"
    /\ txctrl' = TxctrlValue(1, IF stop_bits = "One" THEN 0 ELSE 1, 1)
    /\ regWrites' = regWrites \cup {"txctrl"}
    /\ ret' = [op |-> "transmit_buffer", code |-> "Ok", buf |-> {}]
    /\ pc' = "idle"
    /\ drained' = FALSE
    /\ UNCHANGED <<driver, ie_txwm, div, fifo_depth, fifo, tx_data, tx_len, i, bytes, hpc, map_buffer, req, cb,
                   txlog, dropped, sync_arg, lost>>

\* ------------------------------------------------ unsupported operations
\* What every operation below leaves alone: the driver, the registers, the
\* locals and all observations but the return value and the register writes.
Untouched ==
    UNCHANGED <<driver, regs, locals, req, cb, txlog, dropped, drained, sync_arg, lost>>

transmit_abort ==
    /\ Idle
    /\ ret' = [op |-> "transmit_abort", code |-> "FAIL", buf |-> {}]
    /\ regWrites' = {}
    /\ Untouched

\* _word is not read.
transmit_word(word) ==
    /\ Idle
    /\ ret' = [op |-> "transmit_word", code |-> "FAIL", buf |-> {}]
    /\ regWrites' = {}
    /\ Untouched

\* The buffer comes back in the error; _rx_len is not read.
receive_buffer(rx_buffer, rx_len) ==
    /\ Idle
    /\ ret' = [op |-> "receive_buffer", code |-> "FAIL", buf |-> {rx_buffer}]
    /\ regWrites' = {}
    /\ Untouched

receive_abort ==
    /\ Idle
    /\ ret' = [op |-> "receive_abort", code |-> "FAIL", buf |-> {}]
    /\ regWrites' = {}
    /\ Untouched

receive_word ==
    /\ Idle
    /\ ret' = [op |-> "receive_word", code |-> "FAIL", buf |-> {}]
    /\ regWrites' = {}
    /\ Untouched

\* ---------------------------------------------------------------- calls
\* A transfer has been started and its callback has not come.
InFlight == req # {} /\ cb = <<>>

\* transmit_buffer has returned success for the transfer in req (a call that
\* panicked in its fill still holds tx_data and never returned).
Accepted == req # {} /\ pc \notin TbPcs /\ tx_data = {}

\* A transmit is in progress: accepted, and not yet completed by the callback.
InProgress == Accepted /\ cb = <<>>

SyncInputs == {[k \in 1..n |-> ByteOf(b, k - 1)] : b \in {1}, n \in 0..MaxSync}

\* The caller owns the buffer it passes (it is not the one in the slot) and
\* keeps one transmit in flight at a time.
TransmitBuffer ==
    \E b \in BufferIds, n \in 0..MaxLen :
        /\ b \notin buffer
        /\ n > 0 => ~InFlight
        /\ transmit_buffer(b, n)

TransmitBufferSteps == tb_write \/ tb_index \/ tb_full \/ tb_store \/ tb_len \/ tb_ctrl

\* transmit_sync is not called during an asynchronous transmit.
TransmitSync == ~InFlight /\ \E bs \in SyncInputs : transmit_sync(bs)

TransmitSyncSteps == ts_poll \/ ts_write

\* configure runs only while no transmit is in flight.
Configure == ~InFlight /\ \E params \in Params : configure(params)

SetTransmitClient == set_transmit_client

\* Words passed to transmit_word.
Words == {0, 255}

TransmitAbort == transmit_abort

TransmitWord == \E word \in Words : transmit_word(word)

\* The caller passes a buffer it owns, with any length.
ReceiveBuffer ==
    \E rx_buffer \in BufferIds, rx_len \in {0, MaxLen} :
        rx_buffer \notin buffer /\ receive_buffer(rx_buffer, rx_len)

ReceiveAbort == receive_abort

ReceiveWord == receive_word

Unsupported ==
    \/ TransmitAbort
    \/ TransmitWord
    \/ ReceiveBuffer
    \/ ReceiveAbort
    \/ ReceiveWord

Foreground ==
    \/ TransmitBuffer
    \/ TransmitBufferSteps
    \/ TransmitSync
    \/ TransmitSyncSteps
    \/ Configure
    \/ SetTransmitClient

HandlerSteps == hi_write \/ hi_full \/ hi_replace

\* The interrupt as the hardware raises it: enabled and pending.
TxwmInterrupt == ie_txwm /\ ip_txwm /\ handle_interrupt

\* handle_interrupt between two foreground calls.
HandleInterrupt == pc = "idle" /\ handle_interrupt

Next == Foreground \/ Drain \/ HandleInterrupt \/ HandlerSteps

Spec == Init /\ [][Next]_vars

\* The hardware keeps draining the FIFO, an interrupt that is enabled and
\* pending is taken once the foreground call has returned, and the CPU goes on
\* with the handler or the call it is in.
Fairness ==
    /\ WF_vars(Drain)
    /\ WF_vars(pc = "idle" /\ TxwmInterrupt)
    /\ WF_vars(HandlerSteps)
    /\ WF_vars(TransmitBufferSteps)
    /\ WF_vars(TransmitSyncSteps)

LiveSpec == Spec /\ Fairness

\* The interrupt preempts the foreground wherever it is, unless it has panicked.
Preempt == pc # "panic" /\ TxwmInterrupt

NextPreempt == Foreground \/ Drain \/ Preempt \/ HandlerSteps

SpecPreempt == Init /\ [][NextPreempt]_vars

\* The transmit path with the unsupported operations called between its calls,
\* an in-flight transmit included, under the fairness of LiveSpec.
NextUnsupported ==
    \/ TransmitBuffer
    \/ TransmitBufferSteps
    \/ TransmitSync
    \/ TransmitSyncSteps
    \/ SetTransmitClient
    \/ Unsupported
    \/ Drain
    \/ HandleInterrupt
    \/ HandlerSteps

SpecUnsupported == Init /\ [][NextUnsupported]_vars /\ Fairness

\* Buffers the driver dropped: the caller gave them away and never got them back.
LostBuffers == lost

\* A caller that does not wait for the callback: transmit_buffer is called
\* whether or not a transmit is in progress, with a buffer the caller still owns.
TransmitBufferAnytime ==
    \E b \in BufferIds, n \in 0..MaxLen :
        /\ b \notin buffer
        /\ b \notin LostBuffers
        /\ transmit_buffer(b, n)

NextOverlap ==
    \/ TransmitBufferAnytime
    \/ TransmitBufferSteps
    \/ SetTransmitClient
    \/ Drain
    \/ HandleInterrupt
    \/ HandlerSteps

SpecOverlap == Init /\ [][NextOverlap]_vars

\* =============================================================== claims
\* The callback transmitted_buffer(buffer, N, Ok(())) the transfer r is owed.
CallbackOf(r) == [buf |-> r.buf, len |-> r.len, result |-> "Ok"]

\* The buffer in the slot.
SlotBuffer == CHOOSE b \in buffer : TRUE

\* The slot's buffer, whether it is in the slot or lent by TakeCell::map to the
\* refill closure, which puts it back when it returns.
Held == buffer \cup map_buffer

\* C1: a transfer started by transmit_buffer(buffer, N), N > 0, gets at most one
\* transmitted_buffer callback, and that callback carries the same buffer, the
\* length N and Ok; the slot gives its buffer up only in the step of
\* handle_interrupt's completion branch that delivers this callback (a refill
\* borrows it through TakeCell::map and returns it to the slot unchanged).
C1_SingleCallbackWithBufferAndLength ==
    /\ [](/\ Len(cb) <= 1
          /\ \A k \in 1..Len(cb) : \E r \in req : cb[k] = CallbackOf(r))
    /\ [][(Held # {} /\ Held' # Held) =>
            /\ Held' = {}
            /\ hpc = "none" /\ buffer # {}
            /\ len = index
            /\ cb' = Append(cb, [buf |-> SlotBuffer, len |-> len, result |-> "Ok"])]_vars
    /\ [][(map_buffer # {} /\ map_buffer' = {}) => buffer' = map_buffer]_vars

\* A transfer longer than the FIFO has completed with its callback.
C1_Witness ==
    /\ Idle
    /\ Len(cb) = 1
    /\ buffer = {}
    /\ \E r \in req : r.len > fifo_depth /\ cb[1] = CallbackOf(r)

\* C2: under LiveSpec (the FIFO keeps draining, a pending and enabled interrupt
\* is eventually handled), every transfer accepted while a client is registered
\* eventually has handle_interrupt observe cursor == length and deliver the
\* callback.
C2_AcceptedTransferCompletes ==
    (InProgress /\ \E r \in req : r.client)
        ~> (Len(cb) = 1 /\ len = index /\ \E r \in req : cb[1] = CallbackOf(r))

\* C3: no step of transmit_buffer delivers the callback; the callback is
\* delivered only by handle_interrupt, entered after transmit_buffer returned.
C3_CallbackOnlyFromLaterInterrupt ==
    [][/\ (pc \in TbPcs \/ pc' \in TbPcs) => cb' = <<>>
       /\ (cb' # cb /\ cb' # <<>>) => (Accepted /\ pc = "idle" /\ handle_interrupt)]_vars

\* transmit_buffer has returned with all N bytes in the FIFO (fifo = N: none has
\* left it and no refill took place), and no callback has come.
C3_Witness ==
    /\ InProgress
    /\ Idle
    /\ ~dropped
    /\ len > 0 /\ index = len /\ fifo = len
    /\ tx_client
    /\ cb = <<>>

\* C4: under SpecPreempt (handle_interrupt preempts transmit_buffer between any
\* two of its steps, one transmit in flight at a time) a transfer started with a
\* client registered is neither lost nor corrupted: it gets at most one callback,
\* carrying its buffer and its length N, and until that callback an accepted
\* transfer stays able to complete (its buffer in the slot or lent to the
\* running refill, N stored as the length, the cursor within it, the
\* transmit-watermark interrupt enabled).
C4_PreemptedTransferIntact ==
    (\A r \in req : r.client) =>
        /\ Len(cb) <= 1
        /\ \A k \in 1..Len(cb) : \E r \in req : cb[k] = CallbackOf(r)
        /\ InProgress =>
              /\ ie_txwm
              /\ index <= len
              /\ \E r \in req : Held = {r.buf} /\ len = r.len

\* The transfer in req has written its first byte and set the cursor for it, and
\* its callback has not come.
CursorSet == InFlight /\ ~(pc \in {"tb_write", "tb_index"} /\ i = 0)

\* C5: from the transmit_buffer call of a transmit of N bytes until its
\* callback, across the initial fill and every refill, index never decreases
\* and never exceeds N.
C5_CursorMonotoneAndBounded ==
    /\ [](InFlight => \A r \in req : index <= r.len)
    /\ [][(InFlight /\ InFlight') => index' >= index]_vars

\* C6: whenever neither transmit_buffer nor handle_interrupt is running, the
\* buffer slot is occupied iff a transmit is in progress (accepted, callback not
\* yet delivered), and then by the transfer's buffer.
C6_SlotOccupiedIffInProgress ==
    (pc \notin TbPcs /\ hpc = "none") =>
        /\ buffer # {} <=> InProgress
        /\ \A b \in buffer : \E r \in req : r.buf = b

\* handle_interrupt saw cursor == length with no client registered: the transmit
\* is still in progress and the buffer is still in the slot.
C6_Witness ==
    /\ InProgress
    /\ Idle
    /\ ~tx_client
    /\ buffer # {}
    /\ len = index
    /\ ~ie_txwm

\* C7 as claimed: whenever no foreground call is running, ie.txwm is set iff a
\* transmit is in progress.
C7_InterruptEnabledIffInProgress ==
    pc = "idle" => (ie_txwm <=> InProgress)

\* C7 amended: for a transfer started with a transmit client registered,
\* ie.txwm is set iff the transmit is in progress; the step that delivers the
\* callback leaves the interrupt and the transmitter disabled.
C7_InterruptEnabledIffInProgressWithClient ==
    /\ []((pc = "idle" /\ \A r \in req : r.client) => (ie_txwm <=> InProgress))
    /\ [][Len(cb') > Len(cb) => (~ie_txwm' /\ txctrl'.txen = 0 /\ txctrl'.txcnt = 0)]_vars

\* A transfer started with a client registered has completed.
C7_Witness ==
    /\ Idle
    /\ Len(cb) = 1
    /\ \E r \in req : r.client
    /\ ~ie_txwm
    /\ txctrl.txen = 0

\* C8: transmit_buffer(buffer, 0) returns the size error with the same buffer,
\* writes no register and leaves the slot, cursor and length as they were.
C8_ZeroLengthRejectedWithoutEffect ==
    [][\A b \in BufferIds :
        transmit_buffer(b, 0) =>
            /\ ret' = [op |-> "transmit_buffer", code |-> "SIZE", buf |-> {b}]
            /\ regWrites' = {}
            /\ UNCHANGED <<regs, buffer, index, len>>]_vars

\* A zero-length call was rejected while another buffer's transfer is in flight.
C8_Witness ==
    /\ ret.op = "transmit_buffer" /\ ret.code = "SIZE"
    /\ InProgress
    /\ buffer # {} /\ ret.buf # buffer
    /\ ie_txwm

\* C9: configure with parity none and no flow control, for a baud rate B > 0 and
\* a clock C with C / B >= 1, returns success and leaves floor(C / B) - 1 in the
\* divisor register.
C9_DivisorIsQuotientMinusOne ==
    [][\A p \in Params :
        (/\ p.parity = "None" /\ ~p.hw_flow_control
         /\ p.baud_rate > 0
         /\ clock_frequency \div p.baud_rate >= 1
         /\ configure(p)) =>
            /\ ret' = [op |-> "configure", code |-> "Ok", buf |-> {}]
            /\ div' = (clock_frequency \div p.baud_rate) - 1]_vars

\* C10: configure with parity other than none, or with hardware flow control,
\* returns NOSUPPORT for every baud rate (0 included) and stop-bit value, writes
\* no register and leaves the recorded stop-bit mode unchanged.
C10_UnsupportedConfigureRejected ==
    [][(\E p \in Params : (p.parity # "None" \/ p.hw_flow_control) /\ configure(p)) =>
            /\ ret' = [op |-> "configure", code |-> "NOSUPPORT", buf |-> {}]
            /\ regWrites' = {}
            /\ pc' = "idle"
            /\ UNCHANGED <<regs, stop_bits>>]_vars

\* A rejected configure after one that set two stop bits and a divisor.
C10_Witness ==
    /\ ret.op = "configure" /\ ret.code = "NOSUPPORT"
    /\ stop_bits = "Two"
    /\ div # 0

\* C11: transmit_sync(bytes) has returned only when the writes to txdata since
\* the call are exactly the bytes of the slice, in order; each write follows a
\* read of txdata that found the full flag clear (so none hits a full FIFO);
\* no step of the call delivers a callback or changes ie, the buffer slot, the
\* cursor or the length.
C11_TransmitSyncWritesAllBytesInOrder ==
    /\ []((pc = "idle" /\ ret.op = "transmit_sync") => (txlog = sync_arg /\ ~dropped))
    /\ [](pc \in TsPcs => (txlog \o bytes = sync_arg /\ bytes # <<>>))
    /\ [][(pc # "ts_write" /\ pc' = "ts_write") => (pc = "ts_poll" /\ ~TxFull)]_vars
    /\ [][ts_write => (~TxFull /\ txlog' = Append(txlog, Head(bytes)))]_vars
    /\ [][((\E bs \in SyncInputs : transmit_sync(bs)) \/ ts_poll \/ ts_write) =>
            UNCHANGED <<ie_txwm, buffer, index, len, cb>>]_vars

\* transmit_sync has returned after a slice longer than the FIFO is deep.
C11_Witness ==
    /\ Idle
    /\ ret.op = "transmit_sync"
    /\ Len(sync_arg) > fifo_depth
    /\ txlog = sync_arg

\* C12: transmit_abort, transmit_word, receive_buffer, receive_abort and
\* receive_word return FAIL on every call (receive_buffer with the buffer it
\* was given), write no register and change no driver state; under SpecUnsupported a
\* transmit that is in flight when transmit_abort is called keeps its buffer in
\* the slot and its interrupt enabled, and still completes with its callback.
C12_UnsupportedOperationsFailWithoutEffect ==
    /\ [][(transmit_abort \/ receive_abort \/ receive_word
            \/ (\E word \in Words : transmit_word(word))
            \/ (\E b \in BufferIds, n \in {0, MaxLen} : receive_buffer(b, n))) =>
            /\ ret'.code = "FAIL"
            /\ regWrites' = {}
            /\ cb' = cb
            /\ UNCHANGED <<driver, regs>>]_vars
    /\ [][\A b \in BufferIds, n \in {0, MaxLen} :
            receive_buffer(b, n) => ret' = [op |-> "receive_buffer", code |-> "FAIL", buf |-> {b}]]_vars
    /\ [][(InProgress /\ transmit_abort) => (InProgress' /\ buffer' = buffer /\ ie_txwm' = ie_txwm)]_vars
    /\ (InProgress /\ ret.op = "transmit_abort" /\ \E r \in req : r.client)
            ~> (Len(cb) = 1 /\ \E r \in req : cb[1] = CallbackOf(r))

\* C13: under SpecOverlap, transmit_buffer(b, n), n > 0, called while an earlier
\* transmit is in progress is started like any other (the fill begins at byte 0
\* of b), its buffer.replace drops the earlier buffer from the slot, and it
\* returns Ok; once it has returned, the slot holds b, len holds n and the
\* cursor is within n; a dropped buffer is never in a callback, and the two
\* accepted calls together get at most one callback, which carries b and n.
C13_OverlappingTransmitNotDetected ==
    /\ [][(InProgress /\ \E b \in BufferIds, n \in 1..MaxLen : transmit_buffer(b, n)) =>
            /\ pc' = "tb_write" /\ i' = 0 /\ txlog' = <<>>
            /\ \E r \in req : buffer' = {r.buf} /\ r.buf \notin tx_data'
            /\ req' # req]_vars
    /\ [][(pc = "tb_store" /\ pc' = "tb_len") =>
            /\ buffer' = tx_data
            /\ LostBuffers' = LostBuffers \cup buffer]_vars
    /\ [][(pc = "tb_ctrl" /\ pc' = "idle") =>
            /\ ret' = [op |-> "transmit_buffer", code |-> "Ok", buf |-> {}]
            /\ \E r \in req : buffer' = {r.buf} /\ len' = r.len /\ index' <= r.len
            /\ \A k \in 1..index' : txlog'[k] = ByteOf(SlotBuffer', k - 1)]_vars
    /\ [](/\ Len(cb) <= 1
          /\ \A k \in 1..Len(cb) : \E r \in req : cb[k] = CallbackOf(r)
          /\ \A k \in 1..Len(cb) : cb[k].buf \notin LostBuffers
          /\ \A r \in req : r.buf \notin LostBuffers)

\* The second of two overlapping transmits has completed with its callback; the
\* buffer of the first one was dropped.
C13_Witness ==
    /\ Idle
    /\ LostBuffers # {}
    /\ Len(cb) = 1
    /\ buffer = {}
    /\ \E r \in req : cb[1] = CallbackOf(r) /\ r.buf \notin LostBuffers /\ r.len > fifo_depth
\* C14: in every reachable state, the states inside transmit_buffer included,
\* the stored cursor is within the stored length: 0 <= index <= len.
C14_CursorWithinLength == 0 <= index /\ index <= len

\* C15: a handle_interrupt that finds ip.txwm pending while no transmit is in
\* flight and the slot is empty returns without a panic, delivers no callback,
\* writes no byte and leaves the slot, the cursor and the length as they were.
C15_SpuriousInterruptIgnored ==
    [][(handle_interrupt /\ ip_txwm /\ ~InFlight /\ buffer = {}) =>
            /\ cb' = cb
            /\ hpc' = "none" /\ pc' = pc /\ ret' = ret
            /\ txlog' = txlog
            /\ UNCHANGED <<buffer, index, len>>]_vars

\* After a completed transfer and a transmit_sync, a handle_interrupt with no
\* transfer in flight has run with a client registered: only the completion
\* branch clears txen, and the callback log still holds the one callback.
C15_Witness ==
    /\ Idle
    /\ ret.op = "transmit_sync"
    /\ txctrl.txen = 0
    /\ tx_client
    /\ buffer = {}
    /\ Len(cb) = 1
    /\ index = len /\ len > 0

\* A transmit is in progress with the transmit-watermark interrupt disabled:
\* its completion was observed while no client was registered.
Stalled == InProgress /\ ~ie_txwm

\* C16: a handle_interrupt that finds cursor == length for a transmit in
\* progress while no client is registered returns without a panic and without
\* a callback and leaves the buffer in the slot, but writes txctrl = 0 and
\* clears ie.txwm; from then on the transmit stays in progress without a
\* callback, whether or not a client is registered afterwards.
C16_CompletionWithoutClientIsLost ==
    /\ [][(handle_interrupt /\ ip_txwm /\ InProgress /\ len = index /\ ~tx_client) =>
            /\ cb' = <<>>
            /\ hpc' = "none" /\ pc' = pc /\ ret' = ret
            /\ buffer' = buffer /\ buffer # {}
            /\ txctrl' = TxctrlValue(0, 0, 0)
            /\ ~ie_txwm'
            /\ Stalled']_vars
    /\ [][Stalled => (Stalled' /\ cb' = <<>> /\ buffer' = buffer)]_vars

\* A client was registered after the completion was observed without one.
C16_Witness ==
    /\ Stalled
    /\ Idle
    /\ tx_client
    /\ \E r \in req : ~r.client /\ buffer = {r.buf} /\ index = r.len
    /\ txctrl.txen = 0

\* The smaller of two numbers.
Min(a, b) == IF a <= b THEN a ELSE b

\* C17: when transmit_buffer(buffer, N) returns after a call that found the
\* FIFO empty (every byte written is still in it: none dropped, none drained),
\* the cursor is min(N, D) for a FIFO of depth D; and a handle_interrupt that
\* finds ip.txwm pending with the cursor at N and a client registered delivers
\* the callback for (buffer, N) without writing a byte.
C17_InitialFillStopsAtFifoDepth ==
    /\ [][(tb_ctrl /\ ~drained /\ ~dropped /\ fifo = Len(txlog)) =>
            /\ index' = Min(tx_len, fifo_depth)
            /\ len' = tx_len]_vars
    /\ [][(handle_interrupt /\ ip_txwm /\ InProgress /\ index = len /\ tx_client) =>
            /\ \E r \in req : cb' = <<CallbackOf(r)>>
            /\ buffer' = {}
            /\ txlog' = txlog
            /\ hpc' = "none"]_vars

\* transmit_buffer has just returned from a fill that the FIFO cut short: D of
\* the N bytes are written, all of them still in the FIFO.
C17_Witness ==
    /\ InProgress
    /\ Idle
    /\ ret = [op |-> "transmit_buffer", code |-> "Ok", buf |-> {}]
    /\ index = fifo_depth /\ fifo_depth < len
    /\ fifo = fifo_depth /\ Len(txlog) = fifo_depth
    /\ ~dropped

\* What a step of configure that changes the state shows: a panic, or a return
\* value of configure together with a change of what configure assigns (every
\* other step of configure leaves all variables as they are).
ConfigureVisible ==
    \/ pc' = "panic"
    \/ /\ ret'.op = "configure"
       /\ <<ret', div', stop_bits', regWrites'>> # <<ret, div, stop_bits, regWrites>>

\* C18: the recorded stop-bit mode is One after new(), becomes the requested
\* mode in a configure that returns Ok and changes in no other step (a
\* configure that fails leaves it); transmit_buffer writes txctrl with txen = 1,
\* txcnt = 1 and nstop for the recorded mode, transmit_sync with txen = 1,
\* txcnt = 1 and nstop for one stop bit whatever the recorded mode.
C18_StopBitsOfLastSuccessfulConfigure ==
    /\ stop_bits = "One"
    /\ [][(ConfigureVisible /\ \E p \in Params : configure(p)) =>
            IF pc' = "idle" /\ ret' = [op |-> "configure", code |-> "Ok", buf |-> {}]
            THEN \E p \in Params :
                    /\ p.parity = "None" /\ ~p.hw_flow_control
                    /\ configure(p)
                    /\ stop_bits' = p.stop_bits
            ELSE stop_bits' = stop_bits]_vars
    /\ [][stop_bits' # stop_bits => \E p \in Params : configure(p)]_vars
    /\ [][tb_ctrl =>
            txctrl' = [txen |-> 1, nstop |-> IF stop_bits = "Two" THEN 1 ELSE 0, txcnt |-> 1]]_vars
    /\ [][(\E bs \in SyncInputs : transmit_sync(bs)) =>
            txctrl' = [txen |-> 1, nstop |-> 0, txcnt |-> 1]]_vars

\* transmit_buffer has programmed two stop bits after a configure that asked
\* for two stop bits and wrote a divisor.
C18_Witness ==
    /\ InProgress
    /\ Idle
    /\ ret = [op |-> "transmit_buffer", code |-> "Ok", buf |-> {}]
    /\ stop_bits = "Two"
    /\ txctrl = [txen |-> 1, nstop |-> 1, txcnt |-> 1]
    /\ div # 0

\* buffer[0], ..., buffer[n - 1] of buffer b.
BytesOf(b, n) == [k \in 1..n |-> ByteOf(b, k - 1)]

\* C19: from the call of an accepted transmit_buffer(buffer, N) to its
\* callback, the bytes written to txdata are buffer[0], buffer[1], ... in this
\* order, as many as the cursor says once it is set, and at the step that
\* delivers the callback they are exactly buffer[0..N-1].
C19_BytesWrittenOnceInOrder ==
    /\ [](InFlight =>
            \A r \in req :
                /\ Len(txlog) <= r.len
                /\ txlog = BytesOf(r.buf, Len(txlog))
                /\ (CursorSet /\ pc # "tb_index") => Len(txlog) = index)
    /\ [][Len(cb') > Len(cb) => \A r \in req : txlog' = BytesOf(r.buf, r.len)]_vars

\* A transfer of more bytes than the FIFO holds has completed: its bytes went
\* out in an initial fill and at least one refill.
C19_Witness ==
    /\ Idle
    /\ Len(cb) = 1
    /\ \E r \in req : r.len > fifo_depth /\ Len(txlog) = r.len /\ r.len = MaxLen
    /\ ~dropped
\* C20: with one transmit in flight at a time and transmit_sync not called
\* during it, no write of the initial fill or of a refill finds the FIFO full:
\* from the call of transmit_buffer to the callback no byte of the buffer is
\* dropped by the hardware.
C20_AsyncWritesNeverHitFullFifo == InFlight => ~dropped

====
